---- MODULE Spec2Model ----
(***************************************************************************)
(* Model of src/src/html-transform.ts: htmlToMarkdown and the passes it    *)
(* runs (extractMediaUrls, the turndown renderer, unwrapSafeLinks,         *)
(* removeInvisibleChars, normalizeWhitespace).                             *)
(*                                                                         *)
(* A text is a sequence of tokens.  A token is one character, or one       *)
(* lexeme that the code's regular expressions treat as a unit (a markup    *)
(* tag, a percent escape, the Safe Links prefix up to and including        *)
(* "?url=").  Every token is a TLA+ string.                                *)
(***************************************************************************)
EXTENDS Integers, Sequences, FiniteSets, TLC

----------------------------------------------------------------------------
(* Tokens *)

SP == " "
TAB == "\t"
NL == "\n"
NBSP == "U+00A0"
EMSP == "U+2003"
ZWSP == "U+200B"
CGJ == "U+034F"
RP == ")"
AMP == "&"
SLASH == "/"
\* a Safe Links prefix: scheme, host label, fixed host, path and "?url="
WRAP == "https://na01.safelinks.protection.outlook.com/?url="
\* percent escapes: of "/", of U+200B (UTF-8 E2 80 8B), and a malformed one
PCT_SLASH == "%2F"
PCT_ZWSP == "%E2%80%8B"
PCT_BAD == "%zz"

\* \p{Zs}: the space separators
Zs == {SP, NBSP, EMSP}
\* \p{Cf}: the format characters
Cf == {ZWSP}
\* \s of a JavaScript regular expression, and what String.prototype.trim strips
JsWhitespace == Zs \cup {TAB, NL}

----------------------------------------------------------------------------
(* Sequence helpers *)

RECURSIVE MapSeq(_, _)
\* text.replace(/<class>/g, to) for a one-token class given as the map f
MapSeq(f, s) ==
  IF s = <<>> THEN <<>> ELSE <<f[Head(s)]>> \o MapSeq(f, Tail(s))

RECURSIVE DropAll(_, _)
\* text.replace(/<class>/g, '')
DropAll(class, s) ==
  IF s = <<>> THEN <<>>
  ELSE IF Head(s) \in class THEN DropAll(class, Tail(s))
  ELSE <<Head(s)>> \o DropAll(class, Tail(s))

RECURSIVE TakeWhile(_, _)
\* the longest prefix of s whose tokens are all in class
TakeWhile(class, s) ==
  IF s = <<>> \/ Head(s) \notin class THEN <<>>
  ELSE <<Head(s)>> \o TakeWhile(class, Tail(s))

RECURSIVE DropWhile(_, _)
DropWhile(class, s) ==
  IF s = <<>> \/ Head(s) \notin class THEN s ELSE DropWhile(class, Tail(s))

Reverse(s) == [i \in 1..Len(s) |-> s[Len(s) + 1 - i]]

\* String.prototype.trim
trim(s) == Reverse(DropWhile(JsWhitespace, Reverse(DropWhile(JsWhitespace, s))))

RECURSIVE CollapseRuns(_, _, _)
\* text.replace(/[<class>]{min,}/g, ' '): every maximal run of at least min
\* tokens of class becomes one ASCII space
CollapseRuns(class, min, s) ==
  IF s = <<>> THEN <<>>
  ELSE LET run == TakeWhile(class, s)
       IN IF Len(run) >= min
          THEN <<SP>> \o CollapseRuns(class, min, SubSeq(s, Len(run) + 1, Len(s)))
          ELSE IF Len(run) > 0
          THEN run \o CollapseRuns(class, min, SubSeq(s, Len(run) + 1, Len(s)))
          ELSE <<Head(s)>> \o CollapseRuns(class, min, Tail(s))

RECURSIVE split(_, _)
\* text.split(sep): the pieces between the separators, empty pieces included
split(s, sep) ==
  LET piece == TakeWhile({t \in {s[i] : i \in 1..Len(s)} : t # sep}, s)
  IN IF Len(piece) = Len(s) THEN <<s>>
     ELSE <<piece>> \o split(SubSeq(s, Len(piece) + 2, Len(s)), sep)

RECURSIVE join(_, _)
\* lines.join(sep)
join(ls, sep) ==
  IF ls = <<>> THEN <<>>
  ELSE IF Len(ls) = 1 THEN ls[1]
  ELSE ls[1] \o <<sep>> \o join(Tail(ls), sep)

----------------------------------------------------------------------------
(* removeInvisibleChars *)

\* the first replacement alone: U+034F, which is not in Cf, stays
removeInvisibleChars_OnlyCf(text) == DropAll(Cf, text)

removeInvisibleChars(text) == DropAll({CGJ}, DropAll(Cf, text))

----------------------------------------------------------------------------
(* normalizeWhitespace *)

\* a first step that knows the non-breaking space only
UnifySpaces_OnlyNbsp(text) ==
  MapSeq([t \in {text[i] : i \in 1..Len(text)} |-> IF t = NBSP THEN SP ELSE t], text)

\* Step 1: every \p{Zs} character becomes an ASCII space
UnifySpaces(text) ==
  MapSeq([t \in {text[i] : i \in 1..Len(text)} |-> IF t \in Zs THEN SP ELSE t], text)

\* a collapse of spaces that forgets the tab
CleanLine_SpacesOnly(line) == trim(CollapseRuns({SP}, 1, line))

\* a collapse with no trim of the line
CleanLine_NoTrim(line) == CollapseRuns({SP, TAB}, 1, line)

\* a trim of the line with no collapse
CleanLine_TrimOnly(line) == trim(line)

\* Step 2, per line: collapse [ \t]+ to one space, then trim
CleanLine(line) == trim(CollapseRuns({SP, TAB}, 1, line))

RECURSIVE CleanLines(_)
CleanLines(ls) ==
  IF ls = <<>> THEN <<>> ELSE <<CleanLine(Head(ls))>> \o CleanLines(Tail(ls))

RECURSIVE SuppressBlank_NoReset(_, _)
\* the loop without its "prevWasEmpty = true": every blank line is kept
SuppressBlank_NoReset(ls, prevWasEmpty) ==
  IF ls = <<>> THEN <<>>
  ELSE IF Head(ls) = <<>>
       THEN IF ~prevWasEmpty
            THEN <<Head(ls)>> \o SuppressBlank_NoReset(Tail(ls), prevWasEmpty)
            ELSE SuppressBlank_NoReset(Tail(ls), prevWasEmpty)
       ELSE <<Head(ls)>> \o SuppressBlank_NoReset(Tail(ls), FALSE)

RECURSIVE SuppressBlank(_, _)
\* Step 3: the loop over the lines, with its flag prevWasEmpty
SuppressBlank(ls, prevWasEmpty) ==
  IF ls = <<>> THEN <<>>
  ELSE IF Head(ls) = <<>>
       THEN IF ~prevWasEmpty
            THEN <<Head(ls)>> \o SuppressBlank(Tail(ls), TRUE)
            ELSE SuppressBlank(Tail(ls), prevWasEmpty)
       ELSE <<Head(ls)>> \o SuppressBlank(Tail(ls), FALSE)

\* Steps 1 to 4: the text as joined, before the final pass
JoinedLines(text) ==
  join(SuppressBlank(CleanLines(split(UnifySpaces(text), NL)), TRUE), NL)

\* Step 5: the final pass over the joined text
FinalCollapse(output) == CollapseRuns({SP}, 2, output)

normalizeWhitespace(text) == trim(FinalCollapse(JoinedLines(text)))

----------------------------------------------------------------------------
(* unwrapSafeLinks *)

Toks(s) == {s[i] : i \in 1..Len(s)}

\* the tokens that end the optional "&..." tail of safeLinkPattern: [\s)>\]]
UrlStop == JsWhitespace \cup {RP, ">", "]"}

\* decodeURIComponent raises URIError on a malformed escape
DecodeThrows(encodedUrl) == PCT_BAD \in Toks(encodedUrl)

\* decodeURIComponent, where it returns: every escape becomes what it encodes
decodeURIComponent(encodedUrl) ==
  MapSeq([t \in Toks(encodedUrl) |->
            IF t = PCT_SLASH THEN SLASH
            ELSE IF t = PCT_ZWSP THEN ZWSP
            ELSE t], encodedUrl)

\* safeLinkPattern tried at the head of text:
\*   <prefix>([^&]+)(?:&[^\s)>\]]*)?
\* len is the length of the match (0: no match), encodedUrl its group 1
safeLinkPattern(text) ==
  IF text = <<>> \/ Head(text) # WRAP THEN [len |-> 0, encodedUrl |-> <<>>]
  ELSE LET rest == Tail(text)
           enc == TakeWhile(Toks(rest) \ {AMP}, rest)
           after == SubSeq(rest, Len(enc) + 1, Len(rest))
           tail == IF after # <<>> /\ Head(after) = AMP
                   THEN <<AMP>> \o TakeWhile(Toks(after) \ UrlStop, Tail(after))
                   ELSE <<>>
       IN IF enc = <<>> THEN [len |-> 0, encodedUrl |-> <<>>]
          ELSE [len |-> 1 + Len(enc) + Len(tail), encodedUrl |-> enc]

\* the replacement callback: (match, encodedUrl) => try decode, catch match
UnwrapOne(match, encodedUrl) ==
  IF DecodeThrows(encodedUrl) THEN match ELSE decodeURIComponent(encodedUrl)

RECURSIVE unwrapSafeLinks(_)
\* text.replace(safeLinkPattern, callback) with the g flag: leftmost matches,
\* the scan resuming after each match; replacements are not scanned again
unwrapSafeLinks(text) ==
  IF text = <<>> THEN <<>>
  ELSE LET m == safeLinkPattern(text)
       IN IF m.len = 0
          THEN <<Head(text)>> \o unwrapSafeLinks(Tail(text))
          ELSE UnwrapOne(SubSeq(text, 1, m.len), m.encodedUrl)
               \o unwrapSafeLinks(SubSeq(text, m.len + 1, Len(text)))

----------------------------------------------------------------------------
(* Markup tokens *)

P_OPEN == "<p>"
P_CLOSE == "</p>"
PRE_OPEN == "<pre>"
PRE_CLOSE == "</pre>"
BR == "<br>"
IMG == "<img>"
NBSP_ENT == "&nbsp;"
\* the address carried by a media element
URL == "u"
\* markup nested deeper than the renderer's recursion can follow: the
\* "catastrophic" input on which turndown.turndown raises
NEST == "<div>..."

MediaTags == {"iframe", "object", "embed", "video", "audio"}
\* the opening tag of a media element with its quoted address attribute
\* (data for object, src for the others), and its closing tag
MediaOpen(tag) ==
  IF tag = "object" THEN "<object data='u'>" ELSE "<" \o tag \o " src='u'>"
MediaClose(tag) == "</" \o tag \o ">"

----------------------------------------------------------------------------
(* extractMediaUrls *)

RECURSIVE ReplacePaired(_, _)
\* html.replace(/<tag[^>]*\saddr=["']([^"']+)["'][^>]*>[\s\S]*?<\/tag>/gi,
\*              '<p>$1</p>'): an opening tag with an address, then lazily
\* everything up to the first closing tag of the same name
ReplacePaired(tag, html) ==
  IF html = <<>> THEN <<>>
  ELSE IF Head(html) = MediaOpen(tag) /\ MediaClose(tag) \in Toks(Tail(html))
       THEN LET inner == TakeWhile(Toks(html) \ {MediaClose(tag)}, Tail(html))
            IN <<P_OPEN, URL, P_CLOSE>>
               \o ReplacePaired(tag, SubSeq(html, Len(inner) + 3, Len(html)))
       ELSE <<Head(html)>> \o ReplacePaired(tag, Tail(html))

RECURSIVE ReplaceSelfClosing(_, _)
\* html.replace(/<tag[^>]*\saddr=["']([^"']+)["'][^>]*\/?>/gi, '<p>$1</p>'):
\* the opening tag alone
ReplaceSelfClosing(tag, html) ==
  IF html = <<>> THEN <<>>
  ELSE IF Head(html) = MediaOpen(tag)
       THEN <<P_OPEN, URL, P_CLOSE>> \o ReplaceSelfClosing(tag, Tail(html))
       ELSE <<Head(html)>> \o ReplaceSelfClosing(tag, Tail(html))

\* the second replacement alone
ReplaceBoth_SelfClosingOnly(tag, html) == ReplaceSelfClosing(tag, html)

ReplaceBoth(tag, html) == ReplaceSelfClosing(tag, ReplacePaired(tag, html))

\* the nine replacements in the order of the code; embed has no paired form
extractMediaUrls(html) ==
  ReplaceBoth("audio",
    ReplaceBoth("video",
      ReplaceSelfClosing("embed",
        ReplaceBoth("object",
          ReplaceBoth("iframe", html)))))

----------------------------------------------------------------------------
(* The renderer: turndown.turndown under the configuration of              *)
(* html-transform.ts (blankReplacement '', defaultReplacement content,     *)
(* images removed, <br> as one newline).  The library itself is not part   *)
(* of the repository; what is modelled is its documented behaviour on      *)
(* text, paragraphs, preformatted blocks, line breaks and images: the      *)
(* paragraph rule '\n\n' + content + '\n\n', the collapse of ASCII         *)
(* whitespace outside <pre>, the join of adjacent pieces with at most two  *)
(* newlines, and the trimming of the result.  A <pre> holds text only.     *)

\* end tags with no open element are dropped by the HTML parser
StrayEndTags == {MediaClose(tag) : tag \in MediaTags}

\* the renderer raises on input it cannot walk
turndownThrows(html) == NEST \in Toks(html)

RECURSIVE ParseBlocks(_, _, _)
\* the children of the root: loose text, <p> and <pre> elements, each with
\* its inline content; kind and body are the element being read
ParseBlocks(h, kind, body) ==
  LET flush == IF kind = "text" /\ body = <<>> THEN <<>>
               ELSE <<[kind |-> kind, body |-> body]>>
  IN IF h = <<>> THEN flush
     ELSE LET t == Head(h)
              rest == Tail(h)
          IN CASE t = P_OPEN -> flush \o ParseBlocks(rest, "p", <<>>)
               [] t = P_CLOSE ->
                    IF kind = "p" THEN flush \o ParseBlocks(rest, "text", <<>>)
                    ELSE IF kind = "pre" THEN ParseBlocks(rest, kind, body)
                    ELSE flush \o <<[kind |-> "p", body |-> <<>>]>>
                         \o ParseBlocks(rest, "text", <<>>)
               [] t = PRE_OPEN ->
                    \* a newline right after <pre> is not part of its content
                    flush \o ParseBlocks(IF rest # <<>> /\ Head(rest) = NL
                                         THEN Tail(rest) ELSE rest, "pre", <<>>)
               [] t = PRE_CLOSE ->
                    IF kind = "pre" THEN flush \o ParseBlocks(rest, "text", <<>>)
                    ELSE ParseBlocks(rest, kind, body)
               [] t \in StrayEndTags -> ParseBlocks(rest, kind, body)
               [] t = NBSP_ENT -> ParseBlocks(rest, kind, Append(body, NBSP))
               [] OTHER -> ParseBlocks(rest, kind, Append(body, t))

Min(a, b) == IF a < b THEN a ELSE b
Max(a, b) == IF a > b THEN a ELSE b

\* turndown's join(output, replacement): the newlines where two pieces meet
\* become max(trailing, leading) newlines, at most two
tdJoin(output, replacement) ==
  LET s1 == Reverse(DropWhile({NL}, Reverse(output)))
      s2 == DropWhile({NL}, replacement)
      nls == Max(Len(output) - Len(s1), Len(replacement) - Len(s2))
  IN s1 \o [i \in 1..Min(nls, 2) |-> NL] \o s2

\* the replacement functions that html-transform.ts configures
blankReplacement == <<>>
defaultReplacement(content) == content
\* the image rule of a renderer left as it comes: ![alt](src)
removeImages_Default == <<"![](src)">>
removeImages == <<>>
simplifyBreaks == <<NL>>

\* an attribute of a node: getAttribute returns null, or its value
NoAttr == [present |-> FALSE, value |-> <<>>]
Attr(v) == [present |-> TRUE, value |-> v]
HTTP == "http://"
HTTPS == "https://"
LB == "["
RB == "]"
LP == "("
QUOTE == "\""
\* href.replace(/^https?:\/\//, '')
StripScheme(href) ==
  IF href # <<>> /\ Head(href) \in {HTTP, HTTPS} THEN Tail(href) ELSE href

\* the link rule of a renderer left as it comes: [content](href "title")
optimizeLinks_Default(content, n) ==
  <<LB>> \o content \o <<RB, LP>> \o n.href.value
  \o (IF n.title.present THEN <<SP, QUOTE>> \o n.title.value \o <<QUOTE>> ELSE <<>>)
  \o <<RP>>

\* rule optimizeLinks: replacement(content, node)
optimizeLinks(content, n) ==
  LET href == n.href
  IN IF ~href.present \/ href.value = <<>> THEN content
     ELSE LET trimmedContent == trim(content)
          IN IF trimmedContent = href.value
                  \/ trimmedContent = StripScheme(href.value)
             THEN href.value
             ELSE <<LB>> \o trimmedContent \o <<RB, LP>> \o href.value \o <<RP>>

RECURSIVE RenderInline(_, _, _)
\* process(node) over inline content: text nodes (ASCII whitespace collapsed
\* unless preformatted), <br> by rule simplifyBreaks, <img> by rule
\* removeImages, each joined to the output so far
RenderInline(body, pre, output) ==
  IF body = <<>> THEN output
  ELSE IF Head(body) = BR
       THEN RenderInline(Tail(body), pre, tdJoin(output, simplifyBreaks))
  ELSE IF Head(body) = IMG
       THEN RenderInline(Tail(body), pre, tdJoin(output, removeImages))
  ELSE LET node == TakeWhile(Toks(body) \ {BR, IMG}, body)
           data == IF pre THEN node ELSE CollapseRuns({SP, TAB, NL}, 1, node)
       IN RenderInline(SubSeq(body, Len(node) + 1, Len(body)), pre,
                       tdJoin(output, data))

\* isBlank: only whitespace text and no void element inside
IsBlank(body) == Toks(body) \subseteq JsWhitespace

\* replacementForNode for one child of the root
RenderBlock(b) ==
  IF b.kind = "text" THEN RenderInline(b.body, FALSE, <<>>)
  ELSE IF IsBlank(b.body) THEN blankReplacement
  ELSE IF b.kind = "p"
       THEN <<NL, NL>> \o RenderInline(b.body, FALSE, <<>>) \o <<NL, NL>>
  ELSE defaultReplacement(RenderInline(b.body, TRUE, <<>>))

RECURSIVE RenderBlocks(_, _)
RenderBlocks(bs, output) ==
  IF bs = <<>> THEN output
  ELSE RenderBlocks(Tail(bs), tdJoin(output, RenderBlock(Head(bs))))

\* postProcess: leading [\t\r\n]+ and trailing [\t\r\n\s]+ removed
postProcess(output) ==
  Reverse(DropWhile(JsWhitespace, Reverse(DropWhile({TAB, NL}, output))))

\* turndown.turndown(html), where it returns
turndown(html) == postProcess(RenderBlocks(ParseBlocks(html, "text", <<>>), <<>>))

----------------------------------------------------------------------------
(* Inputs *)

\* bounds of the inputs drawn
MaxText == 5
MaxLink == 4
MaxPieces == 2
MaxRun == 2
MaxFail == 3
MaxHref == 3
MaxContent == 3
MaxMedia == 3
MaxRuns == 2

Strings(alphabet, n) == UNION {[1..k -> alphabet] : k \in 0..n}

\* a value handed to htmlToMarkdown: a string (its tokens in chars) or not
Str(chars) == [type |-> "string", truthy |-> chars # <<>>, chars |-> chars]
NonStrings ==
  {[type |-> "null", truthy |-> FALSE, chars |-> <<>>],
   [type |-> "undefined", truthy |-> FALSE, chars |-> <<>>],
   [type |-> "number", truthy |-> FALSE, chars |-> <<>>],
   [type |-> "number", truthy |-> TRUE, chars |-> <<>>],
   [type |-> "boolean", truthy |-> FALSE, chars |-> <<>>],
   [type |-> "object", truthy |-> TRUE, chars |-> <<>>]}

\* preformatted text: every character of it reaches the post-processing
PreTexts ==
  {<<PRE_OPEN>> \o t \o <<PRE_CLOSE>> :
     t \in Strings({"a", SP, TAB, NL, NBSP, EMSP}, MaxText)}

\* running text with spaces of several kinds and invisible characters
PlainTexts == Strings({"a", SP, TAB, NL, EMSP, ZWSP, CGJ, IMG}, MaxLink)

\* running text with Safe Links in it
LinkTexts ==
  Strings({WRAP, "a", AMP, SP, RP, PCT_SLASH, PCT_BAD, PCT_ZWSP}, MaxLink)

\* one wrapped link: the prefix, a url parameter (plain, validly escaped or
\* malformed), and further &-parameters or none
Links ==
  {<<WRAP, p>> \o t : p \in {"a", PCT_SLASH, PCT_BAD}, t \in {<<>>, <<AMP, "a">>}}
\* two wrapped links in one text, with a space or the ")" of link syntax
\* between them
LinkPairs == {l1 \o <<sep>> \o l2 : l1 \in Links, l2 \in Links, sep \in {SP, RP}}

\* documents made of paragraphs, runs of the entity &nbsp;, breaks, images
\* and media elements
Run(n) == [i \in 1..n |-> NBSP_ENT]
Pieces ==
  {<<P_OPEN>> \o w \o <<P_CLOSE>> :
     w \in Strings({"Before", "After", NBSP_ENT}, 1)}
  \cup {Run(n) : n \in 1..MaxRun}
  \cup {<<"a">>, <<NL>>, <<BR>>, <<IMG>>, <<P_OPEN>>, <<P_CLOSE>>, <<NEST>>}
  \cup {<<MediaOpen(tag)>> : tag \in {"iframe", "embed"}}
  \cup {<<MediaClose(tag)>> : tag \in {"iframe", "embed"}}
\* one media family at a time: its opening tag, its closing tag and text
MediaTexts ==
  UNION {Strings({MediaOpen(tag), MediaClose(tag), "a"}, MaxMedia) : tag \in MediaTags}
\* <p>Before</p>, n times the entity &nbsp;, <p>After</p>
Scenario(n) ==
  <<P_OPEN, "Before", P_CLOSE>> \o Run(n) \o <<P_OPEN, "After", P_CLOSE>>
\* two paragraphs with a run of entities between them
Scenarios == {Scenario(n) : n \in 1..MaxRun}
\* texts in which every stage finds something to do: a media element, a
\* wrapped link, a space separator and an invisible character
WholeTexts ==
  {<<MediaOpen(tag)>> \o l \o <<s, z, "a">> :
     tag \in MediaTags, l \in Links, s \in {SP, NBSP, EMSP}, z \in {ZWSP, CGJ, "a"}}
RECURSIVE Concat(_)
Concat(ps) == IF ps = <<>> THEN <<>> ELSE Head(ps) \o Concat(Tail(ps))
Documents == {Concat(ps) : ps \in Strings(Pieces, MaxPieces)}

\* input the renderer cannot walk, with text around it
FailTexts ==
  {<<NEST>> \o t : t \in Strings({"a", SP, NL, ZWSP, NBSP}, MaxFail)}

Inputs ==
  NonStrings
  \cup {Str(t) : t \in PreTexts \cup PlainTexts \cup LinkTexts \cup LinkPairs
                       \cup Documents \cup Scenarios \cup MediaTexts
                       \cup WholeTexts
                       \cup FailTexts}

----------------------------------------------------------------------------
(* htmlToMarkdown as a state machine: one action per statement *)

VARIABLES
  pc,                \* where the call is
  html,              \* the argument
  preprocessedHtml,  \* const preprocessedHtml
  markdown,          \* let markdown
  result,            \* how the call ended: returned or raised, and the value
  trace,             \* the stages that have run, in order
  fn,                \* a pass applied on its own: which one ("ready": none yet)
  arg,               \* its argument
  ret,               \* what it returned
  node,              \* the node handed to the link rule applied on its own
  running,           \* the task whose code is executing, if any
  current,           \* the store of the executing code: what getStore() returns
  saved,             \* per task: the store its continuation resumes with
  frames,            \* per task: what each run() it is in restores at its end
  inRun,             \* per task: the contexts of the runs it is inside
  answer             \* the latest call of shouldSimplifyHtml and its result

vars ==
  <<pc, html, preprocessedHtml, markdown, result, trace, fn, arg, ret, node,
    running, current, saved, frames, inRun, answer>>
\* the part of the state that tool-context.ts uses
context == <<running, current, saved, frames, inRun, answer>>
\* the part of the state that a pass applied on its own uses
alone == <<fn, arg, ret>>
\* the part of the state that a call of htmlToMarkdown uses
call == <<pc, html, preprocessedHtml, markdown, result, trace>>

Pending == [status |-> "pending", value |-> Str(<<>>)]
\* a node with no attribute
NoNode == [href |-> NoAttr, title |-> NoAttr]

Tasks == {"task1", "task2"}
NoTask == "none"
\* getStore() outside any run: undefined
Undefined == [defined |-> FALSE, toolName |-> "", simplifyHtml |-> FALSE]
NotAsked ==
  [asked |-> FALSE, task |-> NoTask, value |-> FALSE, inside |-> FALSE,
   ctx |-> Undefined]
\* no task running, no run entered, shouldSimplifyHtml not called yet
ContextIdle ==
  /\ running = NoTask
  /\ current = Undefined
  /\ saved = [t \in Tasks |-> Undefined]
  /\ frames = [t \in Tasks |-> <<>>]
  /\ inRun = [t \in Tasks |-> <<>>]
  /\ answer = NotAsked

Init ==
  /\ html \in Inputs
  /\ pc = "call"
  /\ preprocessedHtml = <<>>
  /\ markdown = <<>>
  /\ result = Pending
  /\ trace = <<>>
  /\ fn = "none" /\ arg = <<>> /\ ret = <<>>
  /\ node = NoNode
  /\ ContextIdle

\* a guard that answers every such input with the empty string
ReturnInput_Empty ==
  /\ pc = "call"
  /\ ~html.truthy \/ html.type # "string"
  /\ result' = [status |-> "returned", value |-> Str(<<>>)]
  /\ pc' = "done"
  /\ UNCHANGED <<html, preprocessedHtml, markdown, trace>>
  /\ UNCHANGED <<alone, node, context>>

\* if (!html || typeof html !== 'string') return html;
ReturnInput ==
  /\ pc = "call"
  /\ ~html.truthy \/ html.type # "string"
  /\ result' = [status |-> "returned", value |-> html]
  /\ pc' = "done"
  /\ UNCHANGED <<html, preprocessedHtml, markdown, trace>>
  /\ UNCHANGED <<alone, node, context>>

\* const preprocessedHtml = extractMediaUrls(html);
CallExtractMediaUrls ==
  /\ pc = "call"
  /\ html.truthy /\ html.type = "string"
  /\ preprocessedHtml' = extractMediaUrls(html.chars)
  /\ trace' = Append(trace, "extractMediaUrls")
  /\ pc' = "extracted"
  /\ UNCHANGED <<html, markdown, result>>
  /\ UNCHANGED <<alone, node, context>>

\* let markdown = turndown.turndown(preprocessedHtml);
CallTurndown ==
  /\ pc = "extracted"
  /\ ~turndownThrows(preprocessedHtml)
  /\ markdown' = turndown(preprocessedHtml)
  /\ trace' = Append(trace, "turndown")
  /\ pc' = "rendered"
  /\ UNCHANGED <<html, preprocessedHtml, result>>
  /\ UNCHANGED <<alone, node, context>>

\* the same statement, when the renderer raises: control goes to the catch
TurndownRaises ==
  /\ pc = "extracted"
  /\ turndownThrows(preprocessedHtml)
  /\ trace' = Append(trace, "turndown")
  /\ pc' = "catch"
  /\ UNCHANGED <<html, preprocessedHtml, markdown, result>>
  /\ UNCHANGED <<alone, node, context>>

\* a catch clause that hands back the text it had got to
Catch_ReturnsPreprocessed ==
  /\ pc = "catch"
  /\ result' = [status |-> "returned", value |-> Str(preprocessedHtml)]
  /\ pc' = "done"
  /\ UNCHANGED <<html, preprocessedHtml, markdown, trace>>
  /\ UNCHANGED <<alone, node, context>>

\* catch { return html; }
Catch ==
  /\ pc = "catch"
  /\ result' = [status |-> "returned", value |-> html]
  /\ pc' = "done"
  /\ UNCHANGED <<html, preprocessedHtml, markdown, trace>>
  /\ UNCHANGED <<alone, node, context>>

\* markdown = unwrapSafeLinks(markdown);
CallUnwrapSafeLinks ==
  /\ pc = "rendered"
  /\ markdown' = unwrapSafeLinks(markdown)
  /\ trace' = Append(trace, "unwrapSafeLinks")
  /\ pc' = "unwrapped"
  /\ UNCHANGED <<html, preprocessedHtml, result>>
  /\ UNCHANGED <<alone, node, context>>

\* the statement applied to what the renderer returned
CallRemoveInvisibleChars_OfRendered ==
  /\ pc = "unwrapped"
  /\ markdown' = removeInvisibleChars(turndown(preprocessedHtml))
  /\ trace' = Append(trace, "removeInvisibleChars")
  /\ pc' = "cleaned"
  /\ UNCHANGED <<html, preprocessedHtml, result>>
  /\ UNCHANGED <<alone, node, context>>

\* markdown = removeInvisibleChars(markdown);
CallRemoveInvisibleChars ==
  /\ pc = "unwrapped"
  /\ markdown' = removeInvisibleChars(markdown)
  /\ trace' = Append(trace, "removeInvisibleChars")
  /\ pc' = "cleaned"
  /\ UNCHANGED <<html, preprocessedHtml, result>>
  /\ UNCHANGED <<alone, node, context>>

\* markdown = normalizeWhitespace(markdown);
CallNormalizeWhitespace ==
  /\ pc = "cleaned"
  /\ markdown' = normalizeWhitespace(markdown)
  /\ trace' = Append(trace, "normalizeWhitespace")
  /\ pc' = "normalized"
  /\ UNCHANGED <<html, preprocessedHtml, result>>
  /\ UNCHANGED <<alone, node, context>>

\* return markdown;
ReturnMarkdown ==
  /\ pc = "normalized"
  /\ result' = [status |-> "returned", value |-> Str(markdown)]
  /\ pc' = "done"
  /\ UNCHANGED <<html, preprocessedHtml, markdown, trace>>
  /\ UNCHANGED <<alone, node, context>>

Next ==
  \/ ReturnInput
  \/ CallExtractMediaUrls
  \/ CallTurndown
  \/ TurndownRaises
  \/ Catch
  \/ CallUnwrapSafeLinks
  \/ CallRemoveInvisibleChars
  \/ CallNormalizeWhitespace
  \/ ReturnMarkdown

Spec == Init /\ [][Next]_vars

----------------------------------------------------------------------------
(* The three post-processing passes, each applied on its own to a text *)

\* texts with spacing of every kind and line breaks
SpacedTexts == Strings({"a", "b", SP, TAB, NL, NBSP, EMSP}, MaxText)
\* texts with invisible characters
InvisibleTexts == Strings({"a", SP, ZWSP, CGJ}, MaxLink)

InitAlone ==
  /\ arg \in SpacedTexts \cup InvisibleTexts \cup LinkTexts \cup LinkPairs
  /\ fn = "ready"
  /\ ret = <<>>
  /\ pc = "idle"
  /\ html = Str(<<>>)
  /\ preprocessedHtml = <<>>
  /\ markdown = <<>>
  /\ result = Pending
  /\ trace = <<>>
  /\ node = NoNode
  /\ ContextIdle

ApplyUnwrapSafeLinks ==
  /\ fn = "ready"
  /\ ret' = unwrapSafeLinks(arg)
  /\ fn' = "unwrapSafeLinks"
  /\ UNCHANGED <<arg, node, call, context>>

ApplyRemoveInvisibleChars ==
  /\ fn = "ready"
  /\ ret' = removeInvisibleChars(arg)
  /\ fn' = "removeInvisibleChars"
  /\ UNCHANGED <<arg, node, call, context>>

ApplyNormalizeWhitespace ==
  /\ fn = "ready"
  /\ ret' = normalizeWhitespace(arg)
  /\ fn' = "normalizeWhitespace"
  /\ UNCHANGED <<arg, node, call, context>>

NextAlone ==
  \/ ApplyUnwrapSafeLinks
  \/ ApplyRemoveInvisibleChars
  \/ ApplyNormalizeWhitespace

SpecAlone == InitAlone /\ [][NextAlone]_vars

----------------------------------------------------------------------------
(* The link rule applied on its own to a rendered inner text and a node *)

\* destinations: with a scheme that the rule strips, or without
Hrefs == Strings({HTTPS, HTTP, "a"}, MaxHref)
\* rendered inner texts, with blanks at the edges
Contents == Strings({HTTPS, HTTP, "a", SP}, MaxContent)
\* <a> elements: with or without href, with or without title
Nodes ==
  [href : {NoAttr} \cup {Attr(h) : h \in Hrefs},
   title : {NoAttr, Attr(<<"T">>)}]

InitRule ==
  /\ arg \in Contents
  /\ node \in Nodes
  /\ fn = "ready"
  /\ ret = <<>>
  /\ pc = "idle"
  /\ html = Str(<<>>)
  /\ preprocessedHtml = <<>>
  /\ markdown = <<>>
  /\ result = Pending
  /\ trace = <<>>
  /\ ContextIdle

ApplyOptimizeLinks ==
  /\ fn = "ready"
  /\ ret' = optimizeLinks(arg, node)
  /\ fn' = "optimizeLinks"
  /\ UNCHANGED <<arg, node, call, context>>

NextRule == ApplyOptimizeLinks

SpecRule == InitRule /\ [][NextRule]_vars

----------------------------------------------------------------------------
(* tool-context.ts: toolContext, an AsyncLocalStorage, and                 *)
(* shouldSimplifyHtml.  Tasks are asynchronous chains of execution (one    *)
(* per tool call); one of them executes at a time, and they interleave     *)
(* where they await.  AsyncLocalStorage keeps one current store: run()     *)
(* sets it for the duration of its callback and restores the former one,   *)
(* and a continuation resumes with the store it was suspended with.        *)

ONENOTE_TOOLS ==
  {"list-onenote-notebooks", "list-onenote-notebook-sections",
   "list-onenote-section-pages", "get-onenote-page-content",
   "create-onenote-page"}

\* a ToolContext; readOnlyMode and toonMode are not read by
\* shouldSimplifyHtml
ToolContext(toolName, simplifyHtml) ==
  [defined |-> TRUE, toolName |-> toolName, simplifyHtml |-> simplifyHtml]
Contexts ==
  {ToolContext(n, TRUE) : n \in ONENOTE_TOOLS \cup {"test-tool"}}
  \cup {ToolContext("test-tool", FALSE)}

\* toolContext.getStore()
getStore == current

\* shouldSimplifyHtml without its check of the tool name
shouldSimplifyHtml_AnyTool ==
  LET ctx == getStore
  IN IF ~ctx.defined THEN FALSE ELSE ctx.simplifyHtml

shouldSimplifyHtml ==
  LET ctx == getStore
  IN IF ~ctx.defined THEN FALSE
     ELSE IF ctx.toolName \in ONENOTE_TOOLS THEN FALSE
     ELSE ctx.simplifyHtml

Last(s) == s[Len(s)]
Front(s) == SubSeq(s, 1, Len(s) - 1)
\* the runs that have been entered and not left, over all tasks
LiveRuns == Len(frames["task1"]) + Len(frames["task2"])

InitContext ==
  /\ ContextIdle
  /\ pc = "idle"
  /\ html = Str(<<>>)
  /\ preprocessedHtml = <<>>
  /\ markdown = <<>>
  /\ result = Pending
  /\ trace = <<>>
  /\ fn = "none" /\ arg = <<>> /\ ret = <<>>
  /\ node = NoNode

\* the event loop resumes a continuation of task t, with the store the task
\* was suspended with
Resume(t) ==
  /\ running = NoTask
  /\ running' = t
  /\ current' = saved[t]
  /\ UNCHANGED <<saved, frames, inRun, answer, call, alone, node>>

\* task t awaits: its store is kept for its continuation
Await(t) ==
  /\ running = t
  /\ saved' = [saved EXCEPT ![t] = current]
  /\ running' = NoTask
  /\ current' = Undefined
  /\ UNCHANGED <<frames, inRun, answer, call, alone, node>>

\* toolContext.run(ctx, callback) is entered by task t
toolContextRun(t, ctx) ==
  /\ running = t
  /\ LiveRuns < MaxRuns
  /\ frames' = [frames EXCEPT ![t] = Append(@, current)]
  /\ current' = ctx
  /\ inRun' = [inRun EXCEPT ![t] = Append(@, ctx)]
  /\ UNCHANGED <<running, saved, answer, call, alone, node>>

\* the callback of the innermost run of task t is over: the store that was
\* current when the run was entered is current again
EndRun(t) ==
  /\ running = t
  /\ frames[t] # <<>>
  /\ current' = Last(frames[t])
  /\ frames' = [frames EXCEPT ![t] = Front(@)]
  /\ inRun' = [inRun EXCEPT ![t] = Front(@)]
  /\ UNCHANGED <<running, saved, answer, call, alone, node>>

\* task t calls shouldSimplifyHtml()
Check(t) ==
  /\ running = t
  /\ answer' = [asked |-> TRUE, task |-> t, value |-> shouldSimplifyHtml,
                inside |-> inRun[t] # <<>>,
                ctx |-> IF inRun[t] = <<>> THEN Undefined ELSE Last(inRun[t])]
  /\ UNCHANGED <<running, current, saved, frames, inRun, call, alone, node>>

NextContext ==
  \E t \in Tasks :
    \/ Resume(t)
    \/ Await(t)
    \/ \E ctx \in Contexts : toolContextRun(t, ctx)
    \/ EndRun(t)
    \/ Check(t)

SpecContext == InitContext /\ [][NextContext]_vars

----------------------------------------------------------------------------
(* What the claims speak of *)

Stages ==
  <<"extractMediaUrls", "turndown", "unwrapSafeLinks", "removeInvisibleChars",
    "normalizeWhitespace">>

\* the text after each stage of the current call
Rendered == turndown(preprocessedHtml)
Unwrapped == unwrapSafeLinks(Rendered)
Cleaned == removeInvisibleChars(Unwrapped)

\* the complete pipeline on a text
Pipeline(h) ==
  normalizeWhitespace(removeInvisibleChars(unwrapSafeLinks(
    turndown(extractMediaUrls(h)))))

\* the call ended after every stage ran / ended in the catch clause
Completed == pc = "done" /\ trace = Stages
FellBack == pc = "done" /\ trace = <<"extractMediaUrls", "turndown">>

\* the text that was returned
Output == result.value.chars

\* s holds a run of at least n tokens t
HasRun(s, t, n) ==
  \E i \in 1..(Len(s) - n + 1) : \A j \in i..(i + n - 1) : s[j] = t

----------------------------------------------------------------------------
(* C1 *)

\* C1: htmlToMarkdown never raises to its caller; for a non-empty string the
\* value returned is the output of the complete pipeline, or, when a stage
\* raised, exactly the input; never a partially processed text.
C1_FullOrOriginal ==
  /\ result.status # "raised"
  /\ (pc = "done" /\ html.type = "string" /\ html.truthy) =>
       /\ result.status = "returned"
       /\ IF turndownThrows(extractMediaUrls(html.chars))
          THEN result.value = html
          ELSE result.value = Str(Pipeline(html.chars))

\* the renderer raised after extractMediaUrls had rewritten the input, and
\* the caller got the input back
C1_Witness ==
  /\ FellBack
  /\ preprocessedHtml # html.chars
  /\ result = [status |-> "returned", value |-> html]

----------------------------------------------------------------------------
(* C2 *)

\* C2: null, undefined, any other non-string and the empty string are
\* returned unchanged, no stage of the pipeline having run.
C2_IdentityOnNonText ==
  (pc = "done" /\ (html.type # "string" \/ html.chars = <<>>)) =>
    /\ result = [status |-> "returned", value |-> html]
    /\ trace = <<>>
    /\ preprocessedHtml = <<>> /\ markdown = <<>>

\* a call with null has returned
C2_Witness ==
  pc = "done" /\ html.type = "null" /\ result.value.type = "null"

----------------------------------------------------------------------------
(* C3 *)

\* no run of two ASCII spaces, and no space separator but the ASCII space
SpacesNormal(s) == ~HasRun(s, SP, 2) /\ Toks(s) \cap (Zs \ {SP}) = {}

\* C3 as stated: for all inputs the output of htmlToMarkdown has no run of 2
\* or more ASCII spaces and no Zs character other than U+0020.
C3_AllInputs == pc = "done" => SpacesNormal(Output)

\* C3 as amended: the same, for every input on which no stage raises (the
\* call does not end in the catch clause, which returns the input as is).
C3_WhenCompleted == Completed => SpacesNormal(Output)

\* a completed call whose text held both a run of spaces and other space
\* separators before normalizeWhitespace, and returned text
C3_Witness ==
  /\ Completed
  /\ HasRun(Cleaned, SP, 2)
  /\ Toks(Cleaned) \cap (Zs \ {SP}) # {}
  /\ SP \in Toks(Output)

----------------------------------------------------------------------------
(* C4 *)

Invisible == Cf \cup {CGJ}

\* C4 as stated: for all inputs the output holds no Cf character and no
\* U+034F, those that percent-decoding brings in included.
C4_AllInputs == pc = "done" => Toks(Output) \cap Invisible = {}

\* C4 as amended: the same, for every input on which no stage raises.
C4_WhenCompleted == Completed => Toks(Output) \cap Invisible = {}

\* a completed call in which the only format character came out of a
\* percent-decoded destination, next to a U+034F of the text
C4_Witness ==
  /\ Completed
  /\ ZWSP \notin Toks(Rendered)
  /\ ZWSP \in Toks(Unwrapped)
  /\ Output # <<>>

\* a completed call whose rendered text held U+034F
C4_WitnessJoiner == Completed /\ CGJ \in Toks(Rendered) /\ Output # <<>>

----------------------------------------------------------------------------
(* C5 *)

\* C5 as stated: for all inputs the output holds no run of 3 or more
\* newlines.
C5_AllInputs == pc = "done" => ~HasRun(Output, NL, 3)

\* C5 as amended: the same, for every input on which no stage raises.
C5_WhenCompleted == Completed => ~HasRun(Output, NL, 3)

\* a completed call whose text held a run of three newlines before
\* normalizeWhitespace and came out with one blank line in that place
C5_Witness ==
  /\ Completed
  /\ HasRun(Cleaned, NL, 3)
  /\ HasRun(Output, NL, 2)

----------------------------------------------------------------------------
(* C6 *)

\* the spacing characters of a line: the space separators and the tab
Spacing == Zs \cup {TAB}

RECURSIVE Words(_)
\* the words of a line: its maximal runs of tokens that are not spacing
Words(line) ==
  LET t == DropWhile(Spacing, line)
      w == TakeWhile(Toks(t) \ Spacing, t)
  IN IF t = <<>> THEN <<>>
     ELSE <<w>> \o Words(SubSeq(t, Len(w) + 1, Len(t)))

\* C6: words of one line that are separated by a run of spacing characters
\* of any length and mix (space, tab, NBSP, other Zs) come out of
\* normalizeWhitespace with exactly one ASCII space between them.
C6_OneSpaceBetweenWords ==
  (fn = "normalizeWhitespace" /\ NL \notin Toks(arg)) =>
    ret = join(Words(arg), SP)

\* two words separated by a run that mixes a space, a tab and an NBSP
C6_Witness ==
  /\ fn = "normalizeWhitespace"
  /\ \E w1, w2 \in {<<"a">>, <<"b">>} :
       \E run \in [1..3 -> Spacing] :
          /\ {SP, TAB, NBSP} \subseteq Toks(run)
          /\ arg = w1 \o run \o w2
          /\ ret = w1 \o <<SP>> \o w2

\* two words separated by a run that mixes an em space and an NBSP
C6_WitnessEmSpace ==
  /\ fn = "normalizeWhitespace"
  /\ arg = <<"a", EMSP, NBSP, EMSP, "b">>
  /\ ret = <<"a", SP, "b">>

----------------------------------------------------------------------------
(* C7 *)

\* a line with a token that is not whitespace
NonBlank(line) == ~(Toks(line) \subseteq JsWhitespace)

RECURSIVE Paragraphs(_, _, _)
\* the non-blank lines from line i on, each as its words joined by a space,
\* in order; between two of them one newline if they were adjacent lines and
\* one blank line if blank lines stood between them; last is the index of
\* the non-blank line before (0: none)
Paragraphs(ls, i, last) ==
  IF i > Len(ls) THEN <<>>
  ELSE IF ~NonBlank(ls[i]) THEN Paragraphs(ls, i + 1, last)
  ELSE (IF last = 0 THEN <<>>
        ELSE IF last = i - 1 THEN <<NL>> ELSE <<NL, NL>>)
       \o join(Words(ls[i]), SP) \o Paragraphs(ls, i + 1, i)

\* C7: normalizeWhitespace keeps every non-blank line, in order, never
\* merging two of them; two consecutive non-blank lines are separated by
\* exactly one blank line if blank (whitespace-only) lines stood between
\* them and by one newline if none did; no blank line leads or trails.
C7_ParagraphsKept ==
  fn = "normalizeWhitespace" => ret = Paragraphs(split(arg, NL), 1, 0)

\* three lines, the middle one holding only a space: one blank line results
C7_Witness ==
  /\ fn = "normalizeWhitespace"
  /\ arg = <<"a", NL, SP, NL, "b">>
  /\ ret = <<"a", NL, NL, "b">>

\* blank lines that lead and trail, and two adjacent lines kept apart
C7_WitnessEdges ==
  /\ fn = "normalizeWhitespace"
  /\ arg = <<NL, "a", NL, "b", NL>>
  /\ ret = <<"a", NL, "b">>

----------------------------------------------------------------------------
(* C8 *)

IsScenario == \E n \in 1..MaxRun : html.chars = Scenario(n)

\* C8 as stated: for <p>Before</p>, a run of &nbsp; entities, <p>After</p>
\* htmlToMarkdown returns "Before After", the two paragraphs on one line.
C8_OneLine ==
  (pc = "done" /\ IsScenario) => Output = <<"Before", SP, "After">>

\* C8 as amended: for that input htmlToMarkdown returns "Before\n\nAfter":
\* the two paragraphs stay two paragraphs, one blank line between them, and
\* nothing of the run of entities remains.
C8_TwoParagraphs ==
  (pc = "done" /\ IsScenario) =>
    result = [status |-> "returned", value |-> Str(<<"Before", NL, NL, "After">>)]

\* the call on the scenario with the longest run has returned
C8_Witness == pc = "done" /\ html.chars = Scenario(MaxRun) /\ Completed

----------------------------------------------------------------------------
(* C9 *)

\* markup with no text in it: images, line breaks, paragraph tags, and the
\* nesting the renderer cannot walk
NoTextMarkup == {IMG, BR, P_OPEN, P_CLOSE, NEST}
\* the same without what makes the renderer raise
RenderedToNothing == {IMG, BR, P_OPEN, P_CLOSE}

\* h holds whitespace (characters or the entity &nbsp;) and, apart from it,
\* only markup of the given kind
WhitespaceOnly(h, markup) ==
  /\ Toks(h) \cap (JsWhitespace \cup {NBSP_ENT}) # {}
  /\ Toks(h) \subseteq JsWhitespace \cup {NBSP_ENT} \cup markup

\* C9 as stated: an input of whitespace only, possibly interspersed with
\* markup that produces no text, yields the empty string.
C9_AllWhitespaceInputs ==
  (pc = "done" /\ html.type = "string" /\ WhitespaceOnly(html.chars, NoTextMarkup))
    => Output = <<>>

\* C9 as amended: an input of whitespace only, possibly interspersed with
\* images, line breaks and empty paragraphs, on which the renderer does not
\* raise, yields the empty string.
C9_WhenRendered ==
  (pc = "done" /\ html.type = "string"
     /\ WhitespaceOnly(html.chars, RenderedToNothing))
    => result = [status |-> "returned", value |-> Str(<<>>)]

\* whitespace of two kinds around an image came out empty
C9_Witness ==
  /\ Completed
  /\ WhitespaceOnly(html.chars, RenderedToNothing)
  /\ IMG \in Toks(html.chars)
  /\ Toks(html.chars) \cap Zs # {}
  /\ Toks(html.chars) \cap {TAB, NL} # {}
  /\ Output = <<>>

----------------------------------------------------------------------------
(* C10 *)

\* the tokens of a url parameter: up to the first "&", whitespace, ")", ">"
\* or "]"
UrlParam(rest) == TakeWhile(Toks(rest) \ ({AMP} \cup UrlStop), rest)

RECURSIVE DestinationsOnly(_)
\* the text with every wrapped link (prefix, url parameter, further
\* &-parameters if any) replaced by its decoded url parameter
DestinationsOnly(text) ==
  IF text = <<>> THEN <<>>
  ELSE LET param == UrlParam(Tail(text))
           after == SubSeq(text, Len(param) + 2, Len(text))
           more == IF after # <<>> /\ Head(after) = AMP
                   THEN 1 + Len(TakeWhile(Toks(after) \ UrlStop, Tail(after)))
                   ELSE 0
       IN IF Head(text) = WRAP /\ param # <<>>
          THEN decodeURIComponent(param)
               \o DestinationsOnly(SubSeq(after, more + 1, Len(after)))
          ELSE <<Head(text)>> \o DestinationsOnly(Tail(text))

\* every Safe Links prefix of the text starts a link whose url parameter is
\* not empty, is validly percent-encoded and holds no further prefix
ValidlyWrapped(text) ==
  \A i \in 1..Len(text) :
    text[i] = WRAP =>
      LET param == UrlParam(SubSeq(text, i + 1, Len(text)))
      IN param # <<>> /\ PCT_BAD \notin Toks(param) /\ WRAP \notin Toks(param)

\* C10: in a text whose wrapped links all carry a validly percent-encoded
\* url parameter, unwrapSafeLinks replaces every wrapped link by exactly its
\* decoded destination, with or without further &-parameters, in link
\* syntax or in prose, and no wrapped form remains.
C10_EveryLinkUnwrapped ==
  (pc = "unwrapped" /\ ValidlyWrapped(Rendered)) =>
    /\ markdown = DestinationsOnly(Rendered)
    /\ WRAP \notin Toks(markdown)

----------------------------------------------------------------------------
(* C11 *)

\* the url parameter of the link whose prefix is text[i]
ParamAt(text, i) == UrlParam(SubSeq(text, i + 1, Len(text)))

\* every Safe Links prefix of the text starts a link of its own: its url
\* parameter is not empty and holds no further prefix
SeparateLinks(text) ==
  \A i \in 1..Len(text) :
    text[i] = WRAP => ParamAt(text, i) # <<>> /\ WRAP \notin Toks(ParamAt(text, i))

\* where the links with a malformed url parameter start
MalformedLinks(text) ==
  {i \in 1..Len(text) : text[i] = WRAP /\ PCT_BAD \in Toks(ParamAt(text, i))}

\* how many Safe Links prefixes the text holds
WrappedIn(text) == Cardinality({i \in 1..Len(text) : text[i] = WRAP})

\* C11: when the url parameter of a wrapped link is malformed, the link is
\* left exactly as it was (a text whose links are all malformed comes back
\* unchanged), the call of htmlToMarkdown still runs to its end instead of
\* falling back, and every other wrapped link of the text is unwrapped: the
\* links still wrapped afterwards are the malformed ones and no others.
C11_DecodeFailureIsLocal ==
  (pc \in {"unwrapped", "done"} /\ trace # <<>> /\ ~turndownThrows(preprocessedHtml)
     /\ SeparateLinks(Rendered) /\ MalformedLinks(Rendered) # {}) =>
    /\ pc = "done" => Completed
    /\ pc = "unwrapped" =>
         /\ WrappedIn(Rendered) = Cardinality(MalformedLinks(Rendered))
              => markdown = Rendered
         /\ WrappedIn(markdown) = Cardinality(MalformedLinks(Rendered))

----------------------------------------------------------------------------
(* C12 *)

\* C12: the link rule returns the inner text as it is when the node has no
\* href (none, or an empty one); the bare href when the trimmed inner text
\* equals the href or the href without its leading http:// or https://; and
\* [trimmed text](href) in every other case.  One of the three always
\* applies, and the title of the node never shows in the result.
C12_LinkRule ==
  fn = "optimizeLinks" =>
    LET href == node.href.value
        text == trim(arg)
        noHref == ~node.href.present \/ href = <<>>
        redundant ==
          \/ text = href
          \/ \E scheme \in {HTTP, HTTPS} : <<scheme>> \o text = href
    IN /\ noHref => ret = arg
       /\ (~noHref /\ redundant) => ret = href
       /\ (~noHref /\ ~redundant) => ret = <<LB>> \o text \o <<RB, LP>> \o href \o <<RP>>
       /\ Toks(ret) \cap {"T", QUOTE} = {}

\* a node with a title whose inner text, blanks around it, is its href
\* without the scheme: the bare href came back
C12_Witness ==
  /\ fn = "optimizeLinks"
  /\ node.title.present /\ node.href.present
  /\ arg # trim(arg)
  /\ trim(arg) # <<>>
  /\ trim(arg) # node.href.value
  /\ ret = node.href.value

\* each of the other two cases, on a node with a title
C12_WitnessOtherCases ==
  /\ fn = "optimizeLinks"
  /\ node.title.present
  /\ \/ ~node.href.present /\ arg # <<>> /\ ret = arg
     \/ node.href.present /\ Len(ret) = Len(trim(arg)) + Len(node.href.value) + 4

----------------------------------------------------------------------------
(* C13 *)

MediaMarkup ==
  {MediaOpen(tag) : tag \in MediaTags} \cup {MediaClose(tag) : tag \in MediaTags}

\* what follows the opening tag h[i] up to the next media tag, and the text
\* from that tag on
InnerAt(h, i) == TakeWhile(Toks(h) \ MediaMarkup, SubSeq(h, i + 1, Len(h)))
AfterInner(h, i) == SubSeq(h, i + 1 + Len(InnerAt(h, i)), Len(h))

\* every media element of h is of one of the two forms: its opening tag is
\* followed, before any other media tag, by its closing tag (paired), or no
\* closing tag of its family follows it at all (unclosed)
TwoFormsOnly(h) ==
  \A i \in 1..Len(h) : \A tag \in MediaTags :
    h[i] = MediaOpen(tag) =>
      \/ AfterInner(h, i) = <<>>
      \/ Head(AfterInner(h, i)) = MediaClose(tag)
      \/ MediaClose(tag) \notin Toks(AfterInner(h, i))

RECURSIVE OnlyAddresses(_, _)
\* h with every media element replaced by a paragraph holding its address:
\* the whole element for a paired one of the families in paired, the opening
\* tag for any other
OnlyAddresses(h, paired) ==
  IF h = <<>> THEN <<>>
  ELSE IF Head(h) \in {MediaOpen(tag) : tag \in MediaTags}
       THEN LET tag == CHOOSE t \in MediaTags : Head(h) = MediaOpen(t)
                after == AfterInner(h, 1)
            IN IF tag \in paired /\ after # <<>> /\ Head(after) = MediaClose(tag)
               THEN <<P_OPEN, URL, P_CLOSE>> \o OnlyAddresses(Tail(after), paired)
               ELSE <<P_OPEN, URL, P_CLOSE>> \o OnlyAddresses(Tail(h), paired)
       ELSE <<Head(h)>> \o OnlyAddresses(Tail(h), paired)

C13_WitnessEmbed ==
  /\ pc = "extracted"
  /\ html.chars = <<MediaOpen("embed"), "a", MediaClose("embed")>>
  /\ preprocessedHtml = <<P_OPEN, URL, P_CLOSE, "a", MediaClose("embed")>>

----------------------------------------------------------------------------
(* C14 *)

\* C14, at the level of the passes: unwrapSafeLinks, removeInvisibleChars
\* and normalizeWhitespace, applied a second time to their own output,
\* change nothing.
C14_SecondPassChangesNothing ==
  /\ fn = "unwrapSafeLinks" => unwrapSafeLinks(ret) = ret
  /\ fn = "removeInvisibleChars" => removeInvisibleChars(ret) = ret
  /\ fn = "normalizeWhitespace" => normalizeWhitespace(ret) = ret

----------------------------------------------------------------------------
(* C15 *)

\* C15: whatever the runs entered and left and however the tasks
\* interleave, shouldSimplifyHtml() answers true exactly when the caller is
\* inside a run whose context has simplifyHtml = true and a tool name that
\* is not one of the five OneNote tools (the innermost run, when runs are
\* nested); it answers false outside any run; and the store that executing
\* code sees is that of its own task, never that of a run of another task.
C15_ContextDecides ==
  /\ answer.asked =>
       answer.value = (/\ answer.inside
                       /\ answer.ctx.simplifyHtml
                       /\ answer.ctx.toolName \notin ONENOTE_TOOLS)
  /\ \A t \in Tasks :
       running = t =>
         current = IF inRun[t] = <<>> THEN Undefined ELSE Last(inRun[t])

\* a task got true inside its run while the other task was suspended
\* inside a run for a OneNote tool
C15_Witness ==
  /\ answer.asked /\ answer.value
  /\ \E t \in Tasks \ {answer.task} :
       /\ inRun[t] # <<>>
       /\ Last(inRun[t]).toolName \in ONENOTE_TOOLS

\* a task got false for a OneNote tool with simplifyHtml = true, and a task
\* got false outside any run while the other was inside one
C15_WitnessFalse ==
  /\ answer.asked /\ ~answer.value
  /\ \/ answer.inside /\ answer.ctx.simplifyHtml
     \/ ~answer.inside /\ \E t \in Tasks \ {answer.task} : inRun[t] # <<>>

----------------------------------------------------------------------------
(* C16 *)

\* the stages that have run are the first n of the fixed order
RanFirst(n) == trace = SubSeq(Stages, 1, n)

\* C16: at every point of a call the stages that have run are an initial
\* part of extractMediaUrls, renderer, unwrapSafeLinks, removeInvisibleChars,
\* normalizeWhitespace, each having been given what the stage before it
\* returned; a call that no stage fails ends with all five, once each, and
\* returns what normalizeWhitespace, the last of them, returned.
C16_StagesInOrder ==
  /\ pc = "call" => RanFirst(0)
  /\ pc = "extracted" =>
       RanFirst(1) /\ preprocessedHtml = extractMediaUrls(html.chars)
  /\ pc = "rendered" => RanFirst(2) /\ markdown = turndown(preprocessedHtml)
  /\ pc = "unwrapped" =>
       RanFirst(3) /\ markdown = unwrapSafeLinks(turndown(preprocessedHtml))
  /\ pc = "cleaned" =>
       /\ RanFirst(4)
       /\ markdown = removeInvisibleChars(unwrapSafeLinks(turndown(preprocessedHtml)))
  /\ pc = "normalized" =>
       /\ RanFirst(5)
       /\ markdown = normalizeWhitespace(removeInvisibleChars(
                        unwrapSafeLinks(turndown(preprocessedHtml))))
  /\ (pc = "done" /\ html.type = "string" /\ html.truthy
        /\ ~turndownThrows(preprocessedHtml)) =>
       /\ RanFirst(5)
       /\ preprocessedHtml = extractMediaUrls(html.chars)
       /\ result = [status |-> "returned",
                    value |-> Str(normalizeWhitespace(removeInvisibleChars(
                                unwrapSafeLinks(turndown(preprocessedHtml)))))]

\* a completed call in which every stage changed the text it was given
C16_Witness ==
  /\ Completed
  /\ preprocessedHtml # html.chars
  /\ Rendered # preprocessedHtml
  /\ Unwrapped # Rendered
  /\ Cleaned # Unwrapped
  /\ Output # Cleaned

----------------------------------------------------------------------------
(* C17 *)

\* C17 as stated: the final pass is required; among the texts that
\* normalizeWhitespace is applied to there is one whose lines, collapsed,
\* trimmed and joined again, still hold a run of 2 or more spaces, which the
\* final pass changes.
C17_FinalPassRequired ==
  fn = "normalizeWhitespace" =>
    \E text \in SpacedTexts :
      /\ HasRun(JoinedLines(text), SP, 2)
      /\ FinalCollapse(JoinedLines(text)) # JoinedLines(text)

\* C17 as amended: the final pass is never needed; for every text the
\* joined lines hold no run of 2 or more spaces and the final pass leaves
\* them as they are.
C17_FinalPassChangesNothing ==
  fn = "normalizeWhitespace" =>
    /\ ~HasRun(JoinedLines(arg), SP, 2)
    /\ FinalCollapse(JoinedLines(arg)) = JoinedLines(arg)
    /\ ret = trim(JoinedLines(arg))

\* a text with blanks on both sides of a line break, and a run of blanks
\* inside a line, normalized
C17_Witness ==
  /\ fn = "normalizeWhitespace"
  /\ \E i \in 1..(Len(arg) - 2) :
       arg[i] \in Zs \cup {TAB} /\ arg[i + 1] = NL /\ arg[i + 2] \in Zs \cup {TAB}
  /\ NL \in Toks(ret)

\* a run of blanks inside a line, normalized to one space
C17_WitnessRun ==
  /\ fn = "normalizeWhitespace"
  /\ HasRun(UnifySpaces(arg), SP, 2)
  /\ SP \in Toks(ret)

----------------------------------------------------------------------------
(* C18 *)

\* s after its leading tokens that are no whitespace, ")", ">" or "]"
AfterUrl(s) == DropWhile(Toks(s) \ UrlStop, s)

RECURSIVE OnlyLinksChanged(_, _)
\* out is text with nothing changed but its wrapped URLs: a URL is a Safe
\* Links prefix and what follows it up to the first whitespace, ")", ">"
\* or "]"; every token outside the URLs stands in out, in the same order
OnlyLinksChanged(text, out) ==
  IF text = <<>> THEN out = <<>>
  ELSE IF Head(text) = WRAP
       THEN OnlyLinksChanged(AfterUrl(Tail(text)), AfterUrl(out))
       ELSE /\ out # <<>>
            /\ Head(out) = Head(text)
            /\ OnlyLinksChanged(Tail(text), Tail(out))

\* C18: unwrapSafeLinks changes only wrapped links; every character outside
\* a wrapped URL stands unchanged and in the same order in the result, also
\* after a URL with no &-parameter that prose or a ")" follows, and a text
\* with no wrapped link comes back unchanged.
C18_OnlyLinksChange ==
  fn = "unwrapSafeLinks" =>
    /\ OnlyLinksChanged(arg, ret)
    /\ WRAP \notin Toks(arg) => ret = arg

====
